---- MODULE Spec2Model ----
(***************************************************************************)
(* cloudsqltail: N Pub/Sub receive goroutines decode payloads and append   *)
(* them to the mutex-protected slice globalMessages; one flusher goroutine *)
(* sorts, prints and resets that slice on every tick                       *)
(* (src/cmd/cloudsqltail/main.go).                                         *)
(***************************************************************************)
EXTENDS Integers, Sequences, FiniteSets, TLC

(* ------------------------------ bounds --------------------------------- *)

\* number of receive goroutines (-recv-routines)
NumWorkers == 2
\* number of messages the subscription delivers in a run
MaxMsgs == 2
\* number of ticks of the flush ticker in a run
MaxTicks == 2
\* timestamps of payloads are 1..MaxTs
MaxTs == 2
\* longest buffer the flusher-only specification starts from
MaxBatch == 7

(* ------------------------------ values --------------------------------- *)

Workers == 1 .. NumWorkers
\* holder of mx: the flusher goroutine, or nobody
Flusher == 0
Unlocked == -1

\* time.Time{} : the zero time, before every timestamp a payload carries
ZeroTime == 0
Timestamps == 1 .. MaxTs

\* strings are sequences of characters; the code looks at TextPayload[0]

\* messages.ParsedMessage (zero value)
ZeroMessage == [TextPayload |-> <<>>, Timestamp |-> ZeroTime]

\* A JSON field of the payload: absent, null, a number or a string; for
\* timestamp a string is either an RFC 3339 time ("rfc3339") or not ("string").
NoText == [k |-> "absent", s |-> << >>]
NumText == [k |-> "number", s |-> << >>]
StrText(x) == [k |-> "string", s |-> x]
NoTime == [k |-> "absent", t |-> ZeroTime]
Rfc3339(x) == [k |-> "rfc3339", t |-> x]

\* msg.Data: bytes that are not JSON ("malformed"), a JSON value that is not
\* an object ("scalar"), the JSON null, or a JSON object with its two fields.
NotJson == [form |-> "malformed", textPayload |-> NoText, timestamp |-> NoTime]
Object(x, y) == [form |-> "object", textPayload |-> x, timestamp |-> y]

\* the payloads the subscription delivers
Payloads ==
    { NotJson,
      Object(NumText, Rfc3339(1)),
      Object(NoText, Rfc3339(1)),
      Object(StrText(<<"[", "a">>), NoTime),
      Object(StrText(<<"[", "a">>), Rfc3339(2)),
      Object(StrText(<<"c">>), Rfc3339(1)),
      Object(StrText(<< >>), Rfc3339(2)) }

(* --------------------------- json.Unmarshal ---------------------------- *)

\* a present field whose JSON value does not fit the Go field: a number for
\* the string TextPayload; anything but null or an RFC 3339 string for
\* time.Time
FieldError(data) ==
    \/ data.textPayload.k = "number"
    \/ data.timestamp.k \in {"number", "string"}

\* what json.Unmarshal stores in a fresh ParsedMessage for an object: absent
\* and null fields keep the zero value
DecodedFields(data) ==
    [TextPayload |-> IF data.textPayload.k = "string"
                     THEN data.textPayload.s ELSE <<>>,
     Timestamp |-> IF data.timestamp.k = "rfc3339"
                   THEN data.timestamp.t ELSE ZeroTime]

\* a decoder that takes anything that is not JSON for an empty object
UnmarshalLenient(data) ==
    IF data.form \in {"malformed", "null"}
    THEN [err |-> FALSE, pm |-> ZeroMessage]
    ELSE IF data.form = "scalar" \/ FieldError(data)
    THEN [err |-> TRUE, pm |-> ZeroMessage]
    ELSE [err |-> FALSE, pm |-> DecodedFields(data)]

\* a decoder that requires both fields of the object
UnmarshalStrict(data) ==
    IF data.form \in {"malformed", "scalar", "null"}
    THEN [err |-> TRUE, pm |-> ZeroMessage]
    ELSE IF \/ FieldError(data)
            \/ data.textPayload.k = "absent"
            \/ data.timestamp.k = "absent"
    THEN [err |-> TRUE, pm |-> ZeroMessage]
    ELSE [err |-> FALSE, pm |-> DecodedFields(data)]

Unmarshal(data) ==
    IF data.form \in {"malformed", "scalar"}
    THEN [err |-> TRUE, pm |-> ZeroMessage]
    ELSE IF data.form = "null"
    THEN [err |-> FALSE, pm |-> ZeroMessage]
    ELSE IF FieldError(data)
    THEN [err |-> TRUE, pm |-> ZeroMessage]
    ELSE [err |-> FALSE, pm |-> DecodedFields(data)]

(* ------------------------------ state ---------------------------------- *)

VARIABLES
    globalMessages, \* the slice: a sequence of [id, TextPayload, Timestamp]
    capacity,       \* cap(globalMessages)
    mx,             \* the mutex: Unlocked, or the goroutine holding it
    wpc,            \* per receive goroutine: where it is in the callback
    wmsg,           \* per receive goroutine: id of the message it handles
    wpm,            \* per receive goroutine: parseMessage's local pm
    fpc,            \* where the flusher is in flushMessages
    fi,             \* the flusher's loop index i (1-based)
    ticks,          \* ticks received from tick.C so far
    stdout,         \* lines printed: [id, tick, line]
    delivered,      \* history: payload of every message delivered, by id
    acks,           \* history: number of msg.Ack() calls, by id
    appended,       \* history: [id, epoch] of every append, in order
    flushed,        \* history: [id, tick] of every element the flusher's
                    \* loop has gone through, in order
    flags,          \* the command-line flags, as flag.Parse leaves them
    env,            \* what the environment lets succeed: writes of warnings
                    \* to os.Stdout, pubsub.NewClient, the bind of port 5000
    mpc,            \* where the main goroutine is in main
    exit,           \* the exit code of the process, NoExit while it runs
    sub,            \* the subscription: whether subscribeToPubSub was
                    \* called, whether it made one, its NumGoroutines
    tasks,          \* the goroutines main has started
    d,              \* the period of the flusher's ticker
    warnings,       \* what parseFlags has written to os.Stdout
    stderr,         \* the errors written to os.Stderr
    http,           \* the HTTP task: off, starting, listening, handling
    numGoroutines   \* the number of pulling goroutines sub.Receive runs

procVars ==
    << flags, env, mpc, exit, sub, tasks, d, warnings, stderr, http,
       numGoroutines >>

vars == << globalMessages, capacity, mx, wpc, wmsg, wpm, fpc, fi, ticks,
           stdout, delivered, acks, appended, flushed, procVars >>

workerVars == << wpc, wmsg, wpm >>
flusherVars == << fpc, fi, ticks >>

\* number of times the flusher has taken the lock (drains begun)
Drains == IF fpc = "lock" THEN ticks - 1 ELSE ticks

\* the process runs
NoExit == -1
\* time.Second, in nanoseconds
Second == 1000000000

\* the values the flags are given
Flags ==
    [ project : {"", "p"},
      subscription : {"", "s"},
      recvRoutines : {-1, 0, 1, NumWorkers},
      flushInterval : {-1, 0, 1, Second - 1, Second, 2 * Second} ]

Envs == [stdoutOk : BOOLEAN, clientOk : BOOLEAN, bindOk : BOOLEAN]

NoSub == [called |-> FALSE, made |-> FALSE, NumGoroutines |-> 0]

\* sub.Receive has not been called
NoGoroutines == [default |-> FALSE, n |-> 0]

Alive == exit = NoExit
\* sub.Receive is pulling messages: callbacks are called
Receiving == Alive /\ mpc = "receive"
\* sub.Receive has not returned: the callbacks it has called are running
Handling == Alive /\ mpc \in {"receive", "draining"}
\* the flusher goroutine exists
Flushing == Alive /\ "flushMessages" \in tasks
\* the HTTP goroutine exists
Serving == Alive /\ "serveHttpServer" \in tasks

\* append (line 151) on a full slice: the runtime allocates room for one
\* element when there was none and doubles the capacity otherwise (Go 1.16
\* growslice, for the 40-byte ParsedMessage and the small lengths reached)
Grow(len, cap) == IF len < cap THEN cap ELSE IF cap = 0 THEN 1 ELSE 2 * cap

\* The process once main is in sub.Receive (line 68): flags that pass
\* parseFlags without a warning, the subscription made, the flusher and the
\* HTTP task started, the port bound.
Started ==
    /\ flags = [project |-> "p", subscription |-> "s",
                recvRoutines |-> NumWorkers, flushInterval |-> Second]
    /\ env = [stdoutOk |-> TRUE, clientOk |-> TRUE, bindOk |-> TRUE]
    /\ mpc = "receive"
    /\ exit = NoExit
    /\ sub = [called |-> TRUE, made |-> TRUE, NumGoroutines |-> NumWorkers]
    /\ tasks = {"flushMessages", "serveHttpServer"}
    /\ d = Second
    /\ warnings = << >>
    /\ stderr = << >>
    /\ http = "listening"
    /\ numGoroutines = [default |-> FALSE, n |-> NumWorkers]

\* the pipeline before any message and any tick
Idle ==
    /\ globalMessages = << >>
    /\ capacity = 0
    /\ mx = Unlocked
    /\ wpc = [w \in Workers |-> "idle"]
    /\ wmsg = [w \in Workers |-> 0]
    /\ wpm = [w \in Workers |-> ZeroMessage]
    /\ fpc = "wait"
    /\ fi = 1
    /\ ticks = 0
    /\ stdout = << >>
    /\ delivered = << >>
    /\ acks = << >>
    /\ appended = << >>
    /\ flushed = << >>

Init == Idle /\ Started

(* ------------------- receive goroutines (main.go:68-74) ---------------- *)

\* a callback that acknowledges the message before it parses it
Receive_CallbackAckFirst(w) ==
    /\ Receiving
    /\ wpc[w] = "idle"
    /\ \A v \in Workers : v < w => wpc[v] # "idle"
    /\ Len(delivered) < MaxMsgs
    /\ \E data \in Payloads :
         /\ delivered' = Append(delivered, data)
         /\ acks' = Append(acks, 1)
    /\ wmsg' = [wmsg EXCEPT ![w] = Len(delivered) + 1]
    /\ wpc' = [wpc EXCEPT ![w] = "parse"]
    /\ UNCHANGED << procVars, capacity, globalMessages, mx, wpm, flusherVars,
                    stdout, appended, flushed >>

\* sub.Receive hands the next message of the subscription to an idle
\* receive goroutine, which enters the callback. The goroutines are
\* interchangeable: the message goes to the first idle one.
Receive_Callback(w) ==
    /\ Receiving
    /\ wpc[w] = "idle"
    /\ \A v \in Workers : v < w => wpc[v] # "idle"
    /\ Len(delivered) < MaxMsgs
    /\ \E data \in Payloads :
         /\ delivered' = Append(delivered, data)
         /\ acks' = Append(acks, 0)
    /\ wmsg' = [wmsg EXCEPT ![w] = Len(delivered) + 1]
    /\ wpc' = [wpc EXCEPT ![w] = "parse"]
    /\ UNCHANGED << procVars, capacity, globalMessages, mx, wpm, flusherVars,
                    stdout, appended, flushed >>

\* parseMessage, lines 138-144: decode; return on error
parseMessage_Unmarshal(w) ==
    /\ Handling
    /\ wpc[w] = "parse"
    /\ LET r == Unmarshal(delivered[wmsg[w]])
       IN IF r.err
          THEN /\ wpc' = [wpc EXCEPT ![w] = "ack"]
               /\ wpm' = wpm
          ELSE /\ wpc' = [wpc EXCEPT ![w] = "lock"]
               /\ wpm' = [wpm EXCEPT ![w] = r.pm]
    /\ UNCHANGED << procVars, capacity, globalMessages, mx, wmsg, flusherVars,
                    stdout, delivered, acks, appended, flushed >>

\* a worker that goes on to the append without waiting for the mutex
parseMessage_LockNoWait(w) ==
    /\ Handling
    /\ wpc[w] = "lock"
    /\ wpc' = [wpc EXCEPT ![w] = "append"]
    /\ UNCHANGED << procVars, capacity, globalMessages, mx, wmsg, wpm,
                    flusherVars, stdout, delivered, acks, appended, flushed >>

\* parseMessage, line 147: mx.Lock()
parseMessage_Lock(w) ==
    /\ Handling
    /\ wpc[w] = "lock"
    /\ mx = Unlocked
    /\ mx' = w
    /\ wpc' = [wpc EXCEPT ![w] = "append"]
    /\ UNCHANGED << procVars, capacity, globalMessages, wmsg, wpm,
                    flusherVars, stdout, delivered, acks, appended, flushed >>

\* parseMessage, line 151: globalMessages = append(globalMessages, pm)
parseMessage_Append(w) ==
    /\ Handling
    /\ wpc[w] = "append"
    /\ globalMessages' =
         Append(globalMessages,
                [id |-> wmsg[w], TextPayload |-> wpm[w].TextPayload,
                 Timestamp |-> wpm[w].Timestamp])
    /\ capacity' = Grow(Len(globalMessages), capacity)
    /\ appended' = Append(appended, [id |-> wmsg[w], epoch |-> Drains])
    /\ wpc' = [wpc EXCEPT ![w] = "unlock"]
    /\ UNCHANGED << procVars, mx, wmsg, wpm, flusherVars, stdout, delivered,
                    acks, flushed >>

\* parseMessage, line 148: the deferred mx.Unlock(), run on return
parseMessage_Unlock(w) ==
    /\ Handling
    /\ wpc[w] = "unlock"
    /\ mx' = Unlocked
    /\ wpc' = [wpc EXCEPT ![w] = "ack"]
    /\ UNCHANGED << procVars, capacity, globalMessages, wmsg, wpm,
                    flusherVars, stdout, delivered, acks, appended, flushed >>

\* main, line 73: msg.Ack(); the callback returns
Receive_Ack(w) ==
    /\ Handling
    /\ wpc[w] = "ack"
    /\ acks' = [acks EXCEPT ![wmsg[w]] = @ + 1]
    /\ wpc' = [wpc EXCEPT ![w] = "idle"]
    /\ wmsg' = [wmsg EXCEPT ![w] = 0]
    /\ wpm' = [wpm EXCEPT ![w] = ZeroMessage]
    /\ UNCHANGED << procVars, capacity, globalMessages, mx, flusherVars,
                    stdout, delivered, appended, flushed >>

(* ---------------------- sort.Slice (main.go:184-186) ------------------- *)

\* the less function of line 185, with the timestamps the other way round
LessAfter(s, i, j) == s[i].Timestamp > s[j].Timestamp

\* line 185: globalMessages[i].Timestamp.Before(globalMessages[j].Timestamp)
Less(s, i, j) == s[i].Timestamp < s[j].Timestamp

Swap(s, i, j) == [s EXCEPT ![i] = s[j], ![j] = s[i]]

\* sort.Slice of the Go 1.16 toolchain the Dockerfile builds with, for the
\* slices of at most 12 elements the model reaches: quickSort_func does one
\* ShellSort pass with gap 6 and then an insertion sort. Indices are 1-based.
RECURSIVE shellPass(_, _)
shellPass(s, i) ==
    IF i > Len(s) THEN s
    ELSE shellPass(IF Less(s, i, i - 6) THEN Swap(s, i, i - 6) ELSE s, i + 1)

RECURSIVE insertionInner(_, _)
insertionInner(s, j) ==
    IF j > 1 /\ Less(s, j, j - 1)
    THEN insertionInner(Swap(s, j, j - 1), j - 1)
    ELSE s

RECURSIVE insertionSort_func(_, _)
insertionSort_func(s, i) ==
    IF i > Len(s) THEN s
    ELSE insertionSort_func(insertionInner(s, i), i + 1)

quickSort_func(s) ==
    IF Len(s) > 1 THEN insertionSort_func(shellPass(s, 7), 2) ELSE s

(* --------------------- flushMessages (main.go:170-211) ----------------- *)

\* a loop that prints only the lines that start an entry
PrintsEntriesOnly(msg) ==
    msg.TextPayload # << >> /\ Head(msg.TextPayload) = "["

\* lines 192-200: what the loop prints for one element; nothing for an
\* empty TextPayload, the timestamp in front of a text that starts with '['
Prints(msg) == msg.TextPayload # << >>

\* a loop that puts the timestamp in front of every line
LineAlwaysStamped(msg) ==
    [stamped |-> TRUE, Timestamp |-> msg.Timestamp, text |-> msg.TextPayload]

\* The line "[<timestamp>]: <text>" is the record with stamped = TRUE, the
\* line "<text>" the one with stamped = FALSE; the layout of the timestamp
\* (line 195) is not taken apart.
Line(msg) ==
    IF Head(msg.TextPayload) = "["
    THEN [stamped |-> TRUE, Timestamp |-> msg.Timestamp,
          text |-> msg.TextPayload]
    ELSE [stamped |-> FALSE, Timestamp |-> ZeroTime,
          text |-> msg.TextPayload]

\* line 176: <-tick.C
flushMessages_Tick ==
    /\ Flushing
    /\ fpc = "wait"
    /\ ticks < MaxTicks
    /\ ticks' = ticks + 1
    /\ fpc' = "lock"
    /\ UNCHANGED << procVars, capacity, globalMessages, mx, workerVars, fi,
                    stdout, delivered, acks, appended, flushed >>

\* a flusher that goes on without waiting for the mutex
flushMessages_LockNoWait ==
    /\ Flushing
    /\ fpc = "lock"
    /\ mx' = Flusher
    /\ fpc' = "check"
    /\ UNCHANGED << procVars, capacity, globalMessages, workerVars, fi, ticks,
                    stdout, delivered, acks, appended, flushed >>

\* line 179: mx.Lock()
flushMessages_Lock ==
    /\ Flushing
    /\ fpc = "lock"
    /\ mx = Unlocked
    /\ mx' = Flusher
    /\ fpc' = "check"
    /\ UNCHANGED << procVars, capacity, globalMessages, workerVars, fi, ticks,
                    stdout, delivered, acks, appended, flushed >>

\* a flusher that leaves a single message for a later tick
flushMessages_CheckMany ==
    /\ Flushing
    /\ fpc = "check"
    /\ fpc' = IF Len(globalMessages) > 1 THEN "sort" ELSE "unlock"
    /\ UNCHANGED << procVars, capacity, globalMessages, mx, workerVars, fi,
                    ticks, stdout, delivered, acks, appended, flushed >>

\* a flusher that returns when it finds the buffer empty
flushMessages_CheckStop ==
    /\ Flushing
    /\ fpc = "check"
    /\ fpc' = IF Len(globalMessages) > 0 THEN "sort" ELSE "done"
    /\ UNCHANGED << procVars, capacity, globalMessages, mx, workerVars, fi,
                    ticks, stdout, delivered, acks, appended, flushed >>

\* a flusher that goes back to the ticker when it finds the buffer empty,
\* past the Unlock
flushMessages_CheckContinue ==
    /\ Flushing
    /\ fpc = "check"
    /\ fpc' = IF Len(globalMessages) > 0 THEN "sort" ELSE "wait"
    /\ UNCHANGED << procVars, capacity, globalMessages, mx, workerVars, fi,
                    ticks, stdout, delivered, acks, appended, flushed >>

\* line 182: if len(globalMessages) > 0
flushMessages_Check ==
    /\ Flushing
    /\ fpc = "check"
    /\ fpc' = IF Len(globalMessages) > 0 THEN "sort" ELSE "unlock"
    /\ UNCHANGED << procVars, capacity, globalMessages, mx, workerVars, fi,
                    ticks, stdout, delivered, acks, appended, flushed >>

\* a flusher that gives the mutex back once it has sorted
flushMessages_SortUnlock ==
    /\ Flushing
    /\ fpc = "sort"
    /\ globalMessages' = quickSort_func(globalMessages)
    /\ mx' = Unlocked
    /\ fi' = 1
    /\ fpc' = "emit"
    /\ UNCHANGED << procVars, capacity, workerVars, ticks, stdout, delivered,
                    acks, appended, flushed >>

\* lines 184-186: sort.Slice(globalMessages, ...)
flushMessages_Sort ==
    /\ Flushing
    /\ fpc = "sort"
    /\ globalMessages' = quickSort_func(globalMessages)
    /\ fi' = 1
    /\ fpc' = "emit"
    /\ UNCHANGED << procVars, capacity, mx, workerVars, ticks, stdout,
                    delivered, acks, appended, flushed >>

\* lines 189-201: one iteration of the loop over globalMessages
flushMessages_Emit ==
    /\ Flushing
    /\ fpc = "emit"
    /\ IF fi <= Len(globalMessages)
       THEN LET msg == globalMessages[fi]
            IN /\ stdout' = IF Prints(msg)
                            THEN Append(stdout, [id |-> msg.id, tick |-> ticks,
                                                 line |-> Line(msg)])
                            ELSE stdout
               /\ flushed' = Append(flushed, [id |-> msg.id, tick |-> ticks])
               /\ fi' = fi + 1
               /\ fpc' = fpc
       ELSE /\ fpc' = "reset"
            /\ UNCHANGED << stdout, flushed, fi >>
    /\ UNCHANGED << procVars, capacity, globalMessages, mx, workerVars, ticks,
                    delivered, acks, appended >>

\* a flusher that forgets to reset the slice
flushMessages_ResetKeep ==
    /\ Flushing
    /\ fpc = "reset"
    /\ fpc' = "unlock"
    /\ UNCHANGED << procVars, capacity, globalMessages, mx, workerVars, fi,
                    ticks, stdout, delivered, acks, appended, flushed >>

\* a flusher that sizes the new slice by cap(globalMessages)
flushMessages_ResetCap ==
    /\ Flushing
    /\ fpc = "reset"
    /\ globalMessages' = << >>
    /\ capacity' = capacity
    /\ fpc' = "unlock"
    /\ UNCHANGED << procVars, mx, workerVars, fi, ticks, stdout, delivered,
                    acks, appended, flushed >>

\* line 205: globalMessages = make([]messages.ParsedMessage, 0, len(...))
flushMessages_Reset ==
    /\ Flushing
    /\ fpc = "reset"
    /\ globalMessages' = << >>
    /\ capacity' = Len(globalMessages)
    /\ fpc' = "unlock"
    /\ UNCHANGED << procVars, mx, workerVars, fi, ticks, stdout, delivered,
                    acks, appended, flushed >>

\* line 209: mx.Unlock(); back to the top of the loop
flushMessages_Unlock ==
    /\ Flushing
    /\ fpc = "unlock"
    /\ mx' = Unlocked
    /\ fi' = 1
    /\ fpc' = "wait"
    /\ UNCHANGED << procVars, capacity, globalMessages, workerVars, ticks,
                    stdout, delivered, acks, appended, flushed >>

(* ------------------------ main (main.go:43-79) ------------------------- *)

\* a parseFlags that accepts a flush interval of zero
parseFlagsZero(f, ok) ==
    IF f.project = "" THEN [err |-> "must provide -project", out |-> << >>]
    ELSE IF f.subscription = ""
    THEN [err |-> "must provide -subscription", out |-> << >>]
    ELSE IF f.recvRoutines < 1 /\ ~ok THEN [err |-> "write", out |-> << >>]
    ELSE LET out == IF f.recvRoutines < 1 THEN <<"routines">> ELSE << >>
         IN  IF f.flushInterval < 0
             THEN [err |-> "flush interval must be > 0", out |-> out]
             ELSE IF f.flushInterval < Second
             THEN IF ok THEN [err |-> "", out |-> Append(out, "interval")]
                  ELSE [err |-> "write", out |-> out]
             ELSE [err |-> "", out |-> out]

\* a parseFlags for which a worker count under one is an error
parseFlagsFatal(f, ok) ==
    IF f.project = "" THEN [err |-> "must provide -project", out |-> << >>]
    ELSE IF f.subscription = ""
    THEN [err |-> "must provide -subscription", out |-> << >>]
    ELSE IF f.recvRoutines < 1 THEN [err |-> "routines", out |-> << >>]
    ELSE IF f.flushInterval < 1
         THEN [err |-> "flush interval must be > 0", out |-> << >>]
         ELSE IF f.flushInterval < Second
         THEN IF ok THEN [err |-> "", out |-> <<"interval">>]
              ELSE [err |-> "write", out |-> << >>]
         ELSE [err |-> "", out |-> << >>]

\* parseFlags (lines 82-117) on the flags f, ok telling whether a write to
\* os.Stdout succeeds: the error it returns ("" for nil) and the warnings it
\* has written.  The switch of lines 85-90 tests the project first; a warning
\* that cannot be written is returned as the error (lines 98-100, 111-113).
parseFlags(f, ok) ==
    IF f.project = "" THEN [err |-> "must provide -project", out |-> << >>]
    ELSE IF f.subscription = ""
    THEN [err |-> "must provide -subscription", out |-> << >>]
    ELSE IF f.recvRoutines < 1 /\ ~ok THEN [err |-> "write", out |-> << >>]
    ELSE LET out == IF f.recvRoutines < 1 THEN <<"routines">> ELSE << >>
         IN  IF f.flushInterval < 1
             THEN [err |-> "flush interval must be > 0", out |-> out]
             ELSE IF f.flushInterval < Second
             THEN IF ok THEN [err |-> "", out |-> Append(out, "interval")]
                  ELSE [err |-> "write", out |-> out]
             ELSE [err |-> "", out |-> out]

\* lines 45-49: the flags are checked; an error goes to os.Stderr and the
\* process exits with code 1
main_parseFlags ==
    /\ Alive
    /\ mpc = "parseFlags"
    /\ LET r == parseFlags(flags, env.stdoutOk)
       IN  /\ warnings' = r.out
           /\ IF r.err # ""
              THEN /\ stderr' = Append(stderr, r.err)
                   /\ exit' = 1
                   /\ mpc' = mpc
              ELSE /\ mpc' = "subscribe"
                   /\ UNCHANGED << stderr, exit >>
    /\ UNCHANGED << flags, env, sub, tasks, d, http, numGoroutines >>
    /\ UNCHANGED << capacity, globalMessages, mx, workerVars, flusherVars,
                    stdout, delivered, acks, appended, flushed >>

\* subscribeToPubSub (lines 155-167) called from lines 55-59: the client is
\* made, and the subscription is given the flag's value as it is
main_subscribeToPubSub ==
    /\ Alive
    /\ mpc = "subscribe"
    /\ IF env.clientOk
       THEN /\ sub' = [called |-> TRUE, made |-> TRUE,
                       NumGoroutines |-> flags.recvRoutines]
            /\ mpc' = "goFlush"
            /\ UNCHANGED << stderr, exit >>
       ELSE /\ sub' = [called |-> TRUE, made |-> FALSE, NumGoroutines |-> 0]
            /\ stderr' = Append(stderr, "client")
            /\ exit' = 1
            /\ mpc' = mpc
    /\ UNCHANGED << flags, env, tasks, d, warnings, http, numGoroutines >>
    /\ UNCHANGED << capacity, globalMessages, mx, workerVars, flusherVars,
                    stdout, delivered, acks, appended, flushed >>

\* line 62: go flushMessages(*flagFlushInterval)
main_goFlushMessages ==
    /\ Alive
    /\ mpc = "goFlush"
    /\ tasks' = tasks \cup {"flushMessages"}
    /\ d' = flags.flushInterval
    /\ mpc' = "goHttp"
    /\ UNCHANGED << flags, env, exit, sub, warnings, stderr, http,
                    numGoroutines >>
    /\ UNCHANGED << capacity, globalMessages, mx, workerVars, flusherVars,
                    stdout, delivered, acks, appended, flushed >>

\* line 65: go serveHttpServer()
main_goServeHttpServer ==
    /\ Alive
    /\ mpc = "goHttp"
    /\ tasks' = tasks \cup {"serveHttpServer"}
    /\ http' = "starting"
    /\ mpc' = "callReceive"
    /\ UNCHANGED << flags, env, exit, sub, d, warnings, stderr,
                    numGoroutines >>
    /\ UNCHANGED << capacity, globalMessages, mx, workerVars, flusherVars,
                    stdout, delivered, acks, appended, flushed >>

\* The number of goroutines sub.Receive pulls with: a NumGoroutines under
\* one stands for the library's default.
ReceiveGoroutines(n) ==
    IF n >= 1 THEN [default |-> FALSE, n |-> n] ELSE [default |-> TRUE, n |-> 0]

\* line 68: sub.Receive is entered
main_Receive ==
    /\ Alive
    /\ mpc = "callReceive"
    /\ numGoroutines' = ReceiveGoroutines(sub.NumGoroutines)
    /\ mpc' = "receive"
    /\ UNCHANGED << flags, env, exit, sub, tasks, d, warnings, stderr, http >>
    /\ UNCHANGED << capacity, globalMessages, mx, workerVars, flusherVars,
                    stdout, delivered, acks, appended, flushed >>

\* The service ends the subscription with an error that is not retried:
\* sub.Receive pulls no more messages and waits for the callbacks it has
\* called to return.
Receive_Fail ==
    /\ Receiving
    /\ mpc' = "draining"
    /\ UNCHANGED << flags, env, exit, sub, tasks, d, warnings, stderr, http,
                    numGoroutines >>
    /\ UNCHANGED << capacity, globalMessages, mx, workerVars, flusherVars,
                    stdout, delivered, acks, appended, flushed >>

\* an exit on the error that first runs the rest of the flusher's cycle
main_ReceiveErrorFlush ==
    /\ Alive
    /\ mpc = "draining"
    /\ \A w \in Workers : wpc[w] = "idle"
    /\ stderr' = Append(stderr, "receive")
    /\ exit' = 1
    /\ LET q == SelectSeq(globalMessages, Prints)
       IN  stdout' = stdout \o
             [k \in 1 .. Len(q) |->
                [id |-> q[k].id, tick |-> ticks, line |-> Line(q[k])]]
    /\ UNCHANGED << flags, env, mpc, sub, tasks, d, warnings, http,
                    numGoroutines >>
    /\ UNCHANGED << capacity, globalMessages, mx, workerVars, flusherVars,
                    delivered, acks, appended, flushed >>

\* lines 75-78: sub.Receive returns the error once every callback it has
\* called has returned; the error goes to os.Stderr and the process exits
\* with code 1, whatever the flusher and the HTTP task are doing
main_ReceiveError ==
    /\ Alive
    /\ mpc = "draining"
    /\ \A w \in Workers : wpc[w] = "idle"
    /\ stderr' = Append(stderr, "receive")
    /\ exit' = 1
    /\ UNCHANGED << flags, env, mpc, sub, tasks, d, warnings, http,
                    numGoroutines >>
    /\ UNCHANGED << capacity, globalMessages, mx, workerVars, flusherVars,
                    stdout, delivered, acks, appended, flushed >>

(* ------------------- serveHttpServer (main.go:119-133) ----------------- *)

\* lines 127-131: http.ListenAndServe binds port 5000 and serves, or
\* returns an error and the process exits with code 1
serveHttpServer_ListenAndServe ==
    /\ Serving
    /\ http = "starting"
    /\ IF env.bindOk
       THEN /\ http' = "listening"
            /\ UNCHANGED << stderr, exit >>
       ELSE /\ http' = http
            /\ stderr' = Append(stderr, "could not start HTTP server")
            /\ exit' = 1
    /\ UNCHANGED << flags, env, mpc, sub, tasks, d, warnings, numGoroutines >>
    /\ UNCHANGED << capacity, globalMessages, mx, workerVars, flusherVars,
                    stdout, delivered, acks, appended, flushed >>

\* a request arrives: the handler of lines 120-126 is called
HandleFunc_Request ==
    /\ Serving
    /\ http = "listening"
    /\ http' = "handling"
    /\ UNCHANGED << flags, env, mpc, exit, sub, tasks, d, warnings, stderr,
                    numGoroutines >>
    /\ UNCHANGED << capacity, globalMessages, mx, workerVars, flusherVars,
                    stdout, delivered, acks, appended, flushed >>

\* a handler that reads the buffer under the mutex before it answers
HandleFunc_RespondLocked ==
    /\ Serving
    /\ http = "handling"
    /\ mx = Unlocked
    /\ \E ok \in BOOLEAN :
         IF ok
         THEN /\ http' = "listening"
              /\ UNCHANGED << stderr, exit >>
         ELSE /\ http' = http
              /\ stderr' = Append(stderr, "could not return HTTP response")
              /\ exit' = 1
    /\ UNCHANGED << flags, env, mpc, sub, tasks, d, warnings, numGoroutines >>
    /\ UNCHANGED << capacity, globalMessages, mx, workerVars, flusherVars,
                    stdout, delivered, acks, appended, flushed >>

\* lines 121-125: the handler writes "Alive!"; if the write fails the
\* process exits with code 1
HandleFunc_Respond ==
    /\ Serving
    /\ http = "handling"
    /\ \E ok \in BOOLEAN :
         IF ok
         THEN /\ http' = "listening"
              /\ UNCHANGED << stderr, exit >>
         ELSE /\ http' = http
              /\ stderr' = Append(stderr, "could not return HTTP response")
              /\ exit' = 1
    /\ UNCHANGED << flags, env, mpc, sub, tasks, d, warnings, numGoroutines >>
    /\ UNCHANGED << capacity, globalMessages, mx, workerVars, flusherVars,
                    stdout, delivered, acks, appended, flushed >>

(* --------------------------- specifications ---------------------------- *)

parseMessage(w) ==
    \/ parseMessage_Unmarshal(w)
    \/ parseMessage_Lock(w)
    \/ parseMessage_Append(w)
    \/ parseMessage_Unlock(w)

flushMessages ==
    \/ flushMessages_Tick
    \/ flushMessages_Lock
    \/ flushMessages_Check
    \/ flushMessages_Sort
    \/ flushMessages_Emit
    \/ flushMessages_Reset
    \/ flushMessages_Unlock

Next ==
    \/ \E w \in Workers : Receive_Callback(w)
    \/ \E w \in Workers : parseMessage(w)
    \/ \E w \in Workers : Receive_Ack(w)
    \/ flushMessages

Spec == Init /\ [][Next]_vars

\* The flusher alone, started on a buffer that n appends have filled: the
\* messages arrived in the order 1..n, with any timestamps; their texts go
\* through a new entry, a continuation line and an empty text in turn.
BatchText(i) ==
    IF i % 3 = 1 THEN <<"[", "a">> ELSE IF i % 3 = 2 THEN <<"c">> ELSE << >>

\* cap(globalMessages) after n appends to the nil slice
RECURSIVE CapAfter(_)
CapAfter(n) == IF n = 0 THEN 0 ELSE Grow(n - 1, CapAfter(n - 1))

InitFlush ==
    \E n \in 0 .. MaxBatch :
      \E ts \in [1 .. n -> Timestamps] :
        /\ globalMessages =
             [i \in 1 .. n |-> [id |-> i, TextPayload |-> BatchText(i),
                                Timestamp |-> ts[i]]]
        /\ delivered =
             [i \in 1 .. n |-> Object(StrText(BatchText(i)), Rfc3339(ts[i]))]
        /\ acks = [i \in 1 .. n |-> 1]
        /\ appended = [i \in 1 .. n |-> [id |-> i, epoch |-> 0]]
        /\ capacity = CapAfter(n)
        /\ mx = Unlocked
        /\ wpc = [w \in Workers |-> "idle"]
        /\ wmsg = [w \in Workers |-> 0]
        /\ wpm = [w \in Workers |-> ZeroMessage]
        /\ fpc = "wait"
        /\ fi = 1
        /\ ticks = 0
        /\ stdout = << >>
        /\ flushed = << >>
        /\ Started

SpecFlush == InitFlush /\ [][flushMessages]_vars

\* The start of the process: any flags, any environment, main at its first
\* line.
InitMain ==
    /\ Idle
    /\ flags \in Flags
    /\ env \in Envs
    /\ mpc = "parseFlags"
    /\ exit = NoExit
    /\ sub = NoSub
    /\ tasks = {}
    /\ d = 0
    /\ warnings = << >>
    /\ stderr = << >>
    /\ http = "off"
    /\ numGoroutines = NoGoroutines

NextMain ==
    \/ main_parseFlags
    \/ main_subscribeToPubSub
    \/ main_goFlushMessages
    \/ main_goServeHttpServer
    \/ main_Receive
    \/ serveHttpServer_ListenAndServe

SpecMain == InitMain /\ [][NextMain]_vars

\* The pipeline and the end of the delivery loop.
NextExit ==
    \/ Next
    \/ Receive_Fail
    \/ main_ReceiveError

SpecExit == Init /\ [][NextExit]_vars

\* One payload of each kind the workers and the flusher's loop tell apart:
\* not decodable, a text that is printed, an empty text.
Kinds ==
    { NotJson,
      Object(StrText(<<"c">>), Rfc3339(1)),
      Object(StrText(<< >>), Rfc3339(2)) }

\* the pipeline when the service delivers payloads of Kinds only
NextKinds ==
    \/ /\ \E w \in Workers : Receive_Callback(w)
       /\ delivered'[Len(delivered')] \in Kinds
    \/ \E w \in Workers : parseMessage(w)
    \/ \E w \in Workers : Receive_Ack(w)
    \/ flushMessages

\* The pipeline and the HTTP task.
NextHttp ==
    \/ NextKinds
    \/ HandleFunc_Request
    \/ HandleFunc_Respond

SpecHttp == Init /\ [][NextHttp]_vars


\* The pipeline with a scheduler that lets no actor wait forever for a step
\* it can take: the flusher (its ticker included) and the callback of every
\* worker.  The delivery of messages is left to the service.
SpecLive ==
    /\ Init
    /\ [][NextKinds]_vars
    /\ WF_vars(flushMessages)
    /\ \A w \in Workers : WF_vars(parseMessage(w) \/ Receive_Ack(w))

(* ------------------------------- claims -------------------------------- *)

Ids(q) == { q[k].id : k \in DOMAIN q }
Count(q, id) == Cardinality({ k \in DOMAIN q : q[k].id = id })

\* position of a message in the order of the appends, and the number of
\* drains that had begun when its append was done
ArrivalIndex(id) == CHOOSE k \in DOMAIN appended : appended[k].id = id
EpochOf(id) == appended[ArrivalIndex(id)].epoch

\* the elements of the slice the flusher's loop has not gone through yet
Pending ==
    IF fpc = "emit" THEN SubSeq(globalMessages, fi, Len(globalMessages))
    ELSE IF fpc = "reset" THEN << >>
    ELSE globalMessages

AppendsIn(e) == Cardinality({ k \in DOMAIN appended : appended[k].epoch = e })
FlushedAt(t) == Cardinality({ k \in DOMAIN flushed : flushed[k].tick = t })

\* C1: every appended Record is, at every moment, either still waiting in
\* the buffer or in exactly one flushed batch (gone through by the flusher's
\* loop exactly once): never in neither (loss), never in both or twice
\* (duplication); and nothing is flushed that was not appended.
C1_ExactlyOnce ==
    /\ \A k \in DOMAIN appended :
         /\ Count(appended, appended[k].id) = 1
         /\ Count(Pending, appended[k].id) + Count(flushed, appended[k].id) = 1
    /\ Ids(flushed) \cup Ids(globalMessages) \subseteq Ids(appended)

\* two Records, flushed in two different batches
C1_Witness ==
    /\ Len(flushed) = 2
    /\ flushed[1].tick # flushed[2].tick
    /\ globalMessages = << >>

\* C2: at every flush tick the batch the flusher handles is exactly the
\* appends completed since the previous tick's drain began, and the buffer
\* has length 0 when the flusher is about to release the lock.
C2_BatchSize ==
    /\ fpc \in {"check", "sort", "emit"} =>
         Len(globalMessages) = AppendsIn(ticks - 1)
    /\ fpc \in {"reset", "unlock"} => FlushedAt(ticks) = AppendsIn(ticks - 1)
    /\ fpc = "unlock" => Len(globalMessages) = 0
    /\ fpc \in {"wait", "lock"} =>
         /\ Len(globalMessages) = AppendsIn(Drains)
         /\ \A t \in 1 .. Drains : FlushedAt(t) = AppendsIn(t - 1)

\* the flusher is about to release the lock at the end of its second
\* non-empty flush
C2_Witness ==
    /\ fpc = "unlock"
    /\ ticks = 2
    /\ FlushedAt(1) > 0
    /\ FlushedAt(2) > 0

\* C3: a message whose payload decodes is acknowledged only once its Record
\* has been appended: whenever it is acknowledged, its Record is in the
\* buffer or has been flushed.
C3_AckAfterAppend ==
    \A id \in DOMAIN delivered :
      (acks[id] > 0 /\ ~Unmarshal(delivered[id]).err) =>
        /\ Count(appended, id) = 1
        /\ id \in Ids(globalMessages) \cup Ids(flushed)

\* a message is acknowledged while its Record still waits in the buffer
C3_Witness ==
    \E id \in DOMAIN delivered :
      /\ acks[id] = 1
      /\ id \in Ids(globalMessages)
      /\ id \notin Ids(flushed)

\* C4: a payload that is not JSON appends nothing, never takes the lock,
\* leaves the buffer as it is and is acknowledged exactly once, when its
\* callback returns.
C4_MalformedInv ==
    \A id \in DOMAIN delivered :
      delivered[id].form = "malformed" =>
        /\ id \notin Ids(appended) \cup Ids(globalMessages)
        /\ id \notin Ids(flushed) \cup Ids(stdout)
        /\ \A w \in Workers :
             wmsg[w] = id => wpc[w] \in {"parse", "ack"} /\ mx # w
        /\ acks[id] = IF \E w \in Workers : wmsg[w] = id THEN 0 ELSE 1

C4_MalformedStep ==
    \A w \in Workers :
      ( /\ wpc[w] = "parse"
        /\ delivered[wmsg[w]].form = "malformed"
        /\ wpc'[w] # "parse" ) =>
        /\ wpc'[w] = "ack"
        /\ globalMessages' = globalMessages
        /\ mx' = mx

C4_MalformedDropped == [] C4_MalformedInv /\ [][C4_MalformedStep]_vars

\* a payload that is not JSON has been acknowledged, and the pipeline has
\* since flushed another message
C4_Witness ==
    /\ \E id \in DOMAIN delivered :
         delivered[id].form = "malformed" /\ acks[id] = 1
    /\ flushed # << >>

Incomplete(data) ==
    /\ data.form = "object"
    /\ data.textPayload.k = "absent" \/ data.timestamp.k = "absent"

\* C5 as stated: a JSON object that lacks textPayload or timestamp is
\* dropped: no Record is appended for it and no line is printed for it.
C5_IncompleteDropped ==
    \A id \in DOMAIN delivered :
      Incomplete(delivered[id]) =>
        id \notin Ids(appended) /\ id \notin Ids(stdout)

\* C5 as amended: a JSON object that lacks textPayload or timestamp (its
\* other field being valid) is decoded with the zero value for the missing
\* field and appended like any other before it is acknowledged; without
\* textPayload it never prints a line, without timestamp it prints its line,
\* once flushed, with the zero time.
C5_IncompleteDecoded ==
    \A id \in DOMAIN delivered :
      LET data == delivered[id]
          text == IF data.textPayload.k = "string"
                  THEN data.textPayload.s ELSE << >>
          time == IF data.timestamp.k = "rfc3339"
                  THEN data.timestamp.t ELSE ZeroTime
      IN (Incomplete(data) /\ ~FieldError(data)) =>
           /\ acks[id] > 0 => id \in Ids(appended)
           /\ \A k \in DOMAIN globalMessages :
                globalMessages[k].id = id =>
                  /\ globalMessages[k].TextPayload = text
                  /\ globalMessages[k].Timestamp = time
           /\ text = << >> => id \notin Ids(stdout)
           /\ (text # << >> /\ id \in Ids(flushed)) => id \in Ids(stdout)
           /\ \A k \in DOMAIN stdout :
                stdout[k].id = id =>
                  /\ stdout[k].line.text = text
                  /\ stdout[k].line.stamped => stdout[k].line.Timestamp = time

\* a line has been printed for an object without timestamp
C5_Witness ==
    \E id \in DOMAIN delivered :
      /\ delivered[id].form = "object"
      /\ delivered[id].timestamp.k = "absent"
      /\ id \in Ids(stdout)

\* the timestamp the payload of a message carries
TimestampOf(id) ==
    IF delivered[id].timestamp.k = "rfc3339"
    THEN delivered[id].timestamp.t ELSE ZeroTime

\* C6: within one flush the lines come out in ascending timestamp order:
\* of two Records of a batch with distinct timestamps, the line of the
\* earlier one is written first, whatever their order of arrival.
C6_AscendingOutput ==
    \A i, j \in DOMAIN stdout :
      (i < j /\ stdout[i].tick = stdout[j].tick) =>
        TimestampOf(stdout[i].id) <= TimestampOf(stdout[j].id)

\* a batch of more than six Records, where the sort's gap pass acts, in
\* which a Record that arrived later was printed before an earlier arrival
C6_Witness ==
    /\ Len(flushed) > 6
    /\ \E i, j \in DOMAIN stdout :
         /\ i < j
         /\ stdout[i].tick = stdout[j].tick
         /\ ArrivalIndex(stdout[i].id) > ArrivalIndex(stdout[j].id)
         /\ TimestampOf(stdout[i].id) < TimestampOf(stdout[j].id)

\* C7: the sort is stable: of two Records of a batch with equal timestamps,
\* the one appended first is printed first.
C7_StableOutput ==
    \A i, j \in DOMAIN stdout :
      ( /\ i < j
        /\ stdout[i].tick = stdout[j].tick
        /\ TimestampOf(stdout[i].id) = TimestampOf(stdout[j].id) ) =>
        ArrivalIndex(stdout[i].id) < ArrivalIndex(stdout[j].id)

\* C8 as stated: no worker decodes a payload, and the flusher writes no
\* output line, while holding the mutex.
C8_NoLockAcrossIO ==
    /\ \A w \in Workers : wpc[w] = "parse" => mx # w
    /\ ~ ( /\ fpc = "emit"
           /\ fi <= Len(globalMessages)
           /\ Prints(globalMessages[fi])
           /\ mx = Flusher )

\* C8 as amended: a worker holds the mutex only for its append, never while
\* it decodes, waits or acknowledges; the flusher holds it for the whole
\* tick, across the sort and the writing of every output line.
C8_LockAcrossOutput ==
    /\ \A w \in Workers : wpc[w] \in {"idle", "parse", "lock", "ack"} => mx # w
    /\ fpc \in {"sort", "emit"} => mx = Flusher

\* the flusher is about to print a line, holding the mutex, while a worker
\* waits for the mutex and another decodes
C8_Witness ==
    /\ fpc = "emit"
    /\ fi <= Len(globalMessages)
    /\ Prints(globalMessages[fi])
    /\ mx = Flusher
    /\ \E w \in Workers : wpc[w] = "lock"

Inside(w) == wpc[w] \in {"append", "unlock"}
FlusherInside == fpc \in {"check", "sort", "emit", "reset", "unlock"}

\* C9: every access to the buffer is made holding the one mutex: an actor
\* between its Lock and its Unlock is the holder, so at most one actor is
\* inside at a time and no worker appends while the flusher sorts or prints.
C9_MutualExclusion ==
    /\ \A w \in Workers : Inside(w) => mx = w
    /\ FlusherInside => mx = Flusher
    /\ Cardinality({ w \in Workers : Inside(w) }) +
         (IF FlusherInside THEN 1 ELSE 0) <= 1

\* a worker is about to append while the flusher, its tick received, and
\* another worker both wait for the mutex
C9_Witness ==
    /\ fpc = "lock"
    /\ \E v, w \in Workers : wpc[v] = "append" /\ wpc[w] = "lock"

\* C10: a Record is flushed by the first drain that begins after its append
\* and by no other: Records appended between the same two drains are flushed
\* together, and one appended after a drain began is not in that drain's
\* batch but in the next one, once.
C10_FlushWindow ==
    /\ \A k \in DOMAIN flushed :
         /\ flushed[k].tick = EpochOf(flushed[k].id) + 1
         /\ Count(flushed, flushed[k].id) = 1
    /\ fpc \in {"wait", "lock"} =>
         \A a, b \in DOMAIN appended :
           appended[a].epoch = appended[b].epoch =>
             (appended[a].id \in Ids(flushed) <=> appended[b].id \in Ids(flushed))

\* two Records appended after the first drain began, flushed together by
\* the second
C10_Witness ==
    /\ Len(flushed) = 2
    /\ flushed[1].tick = 2
    /\ flushed[2].tick = 2
    /\ EpochOf(flushed[1].id) = 1
    /\ EpochOf(flushed[2].id) = 1

\* the text the payload of a message carries
TextOf(id) ==
    IF delivered[id].textPayload.k = "string"
    THEN delivered[id].textPayload.s ELSE << >>

LinesAt(t) == Cardinality({ k \in DOMAIN stdout : stdout[k].tick = t })

\* C11: a flushed Record prints no line if its text is empty, the one line
\* "[<timestamp>]: <text>" if its text starts with '[', and otherwise the
\* one line "<text>" without timestamp; a flush writes as many lines as its
\* batch has Records with a non-empty text.
C11_LinePerRecord ==
    /\ Ids(stdout) \subseteq Ids(flushed)
    /\ \A id \in Ids(flushed) :
         /\ Count(stdout, id) = IF TextOf(id) = << >> THEN 0 ELSE 1
         /\ \A k \in DOMAIN stdout :
              stdout[k].id = id =>
                stdout[k].line =
                  IF Head(TextOf(id)) = "["
                  THEN [stamped |-> TRUE, Timestamp |-> TimestampOf(id),
                        text |-> TextOf(id)]
                  ELSE [stamped |-> FALSE, Timestamp |-> ZeroTime,
                        text |-> TextOf(id)]
    /\ \A t \in 1 .. ticks :
         LinesAt(t) =
           Cardinality({ k \in DOMAIN flushed :
                           flushed[k].tick = t /\ TextOf(flushed[k].id) # << >> })

\* a flush of three Records has printed a stamped line and a plain line and
\* nothing for the Record with the empty text
C11_Witness ==
    /\ fpc = "reset"
    /\ Len(flushed) = 3
    /\ Len(stdout) = 2
    /\ \E k \in DOMAIN stdout : stdout[k].line.stamped
    /\ \E k \in DOMAIN stdout : ~stdout[k].line.stamped

\* flags that parseFlags must refuse
ConfigError ==
    flags.project = "" \/ flags.subscription = "" \/ flags.flushInterval < 1

\* C12: with an empty project, an empty subscription or a flush interval
\* under one, main never gets past parseFlags: no subscription is attempted,
\* no goroutine is started, sub.Receive is not called, and the one step the
\* process takes writes an error to os.Stderr and exits with code 1.
C12_Inv ==
    ConfigError =>
      /\ mpc = "parseFlags"
      /\ ~sub.called
      /\ tasks = {}
      /\ http = "off"
      /\ numGoroutines = NoGoroutines
      /\ exit \in {NoExit, 1}
      /\ exit = NoExit => stderr = << >> /\ ENABLED main_parseFlags
      /\ exit = 1 => Len(stderr) = 1 /\ stderr[1] # ""

C12_Step ==
    (ConfigError /\ mpc = "parseFlags") => (exit' = 1 /\ Len(stderr') = 1)

C12_ConfigErrorExits == [] C12_Inv /\ [][C12_Step]_vars

C12_Witness ==
    /\ flags.project = "p"
    /\ flags.subscription = "s"
    /\ flags.flushInterval = 0
    /\ exit = 1
    /\ stderr = <<"flush interval must be > 0">>

\* flags that parseFlags only warns about
WarningOnly ==
    /\ flags.project # ""
    /\ flags.subscription # ""
    /\ flags.flushInterval >= 1
    /\ flags.recvRoutines < 1 \/ flags.flushInterval < Second

\* the warnings parseFlags owes for the flags
WarningsDue ==
    (IF flags.recvRoutines < 1 THEN <<"routines">> ELSE << >>) \o
    (IF flags.flushInterval < Second THEN <<"interval">> ELSE << >>)

\* C13 as stated: a worker count under one, or a flush interval under one
\* second, never makes parseFlags fail.
C13_WarningsNotFatal ==
    WarningOnly => ~(exit = 1 /\ mpc = "parseFlags")

\* C13, amended: when the warnings can be written to os.Stdout, flags that
\* only deserve a warning do not stop the start: the warnings are written,
\* the subscription is given the worker count as it is, sub.Receive then
\* pulls with the library's default number of goroutines if that count is
\* under one, and the flusher's period is the flag's value.  When the write
\* of a warning fails, parseFlags returns that error and the process exits
\* with code 1 before any subscription is attempted.
C13_WarningsWritten ==
    WarningOnly =>
      /\ env.stdoutOk =>
           /\ ~(exit = 1 /\ mpc = "parseFlags")
           /\ mpc = "parseFlags" => ENABLED main_parseFlags
           /\ mpc # "parseFlags" => warnings = WarningsDue
           /\ sub.made => sub.NumGoroutines = flags.recvRoutines
           /\ mpc = "receive" =>
                numGoroutines =
                  IF flags.recvRoutines < 1
                  THEN [default |-> TRUE, n |-> 0]
                  ELSE [default |-> FALSE, n |-> flags.recvRoutines]
           /\ "flushMessages" \in tasks => d = flags.flushInterval
      /\ ~env.stdoutOk =>
           /\ mpc = "parseFlags"
           /\ ~sub.called
           /\ tasks = {}
           /\ exit = NoExit => ENABLED main_parseFlags
           /\ exit # NoExit => exit = 1 /\ stderr = <<"write">>

C13_Witness ==
    /\ mpc = "receive"
    /\ flags.recvRoutines = 0
    /\ flags.flushInterval = 1
    /\ warnings = <<"routines", "interval">>
    /\ sub.NumGoroutines = 0
    /\ numGoroutines.default
    /\ d = 1
    /\ exit = NoExit

pipelineVars ==
    << globalMessages, capacity, mx, workerVars, flusherVars, stdout,
       delivered, acks, appended, flushed >>

C14_Inv ==
    /\ exit \in {NoExit, 1}
    /\ (Alive /\ mpc = "draining" /\ \A w \in Workers : wpc[w] = "idle")
         => ENABLED main_ReceiveError
    /\ ~Alive =>
         /\ \A w \in Workers : wpc[w] = "idle"
         /\ stderr = <<"receive">>
         /\ ~ENABLED NextExit

C14_Step ==
    exit' # exit => /\ exit' = 1
                    /\ UNCHANGED pipelineVars

C15_Inv ==
    Alive =>
      /\ http = "handling" => ENABLED HandleFunc_Respond
      /\ http = "listening" => ENABLED HandleFunc_Request
      /\ \A w \in Workers :
           /\ wpc[w] \in {"parse", "append", "unlock"}
                => ENABLED parseMessage(w)
           /\ wpc[w] = "ack" => ENABLED Receive_Ack(w)
           /\ (wpc[w] = "lock" /\ mx = Unlocked) => ENABLED parseMessage_Lock(w)
      /\ FlusherInside => ENABLED flushMessages
      /\ (fpc = "lock" /\ mx = Unlocked) => ENABLED flushMessages_Lock

C15_Step ==
    /\ (http' # http \/ exit' # exit) => UNCHANGED pipelineVars
    /\ (pipelineVars' # pipelineVars) => UNCHANGED procVars

\* C15: the HTTP task and the pipeline share nothing: a step of the handler
\* leaves the mutex, the buffer and every worker and the flusher as they
\* are, a step of the pipeline leaves the HTTP task as it is; a request
\* being handled can be answered in every state of the pipeline, the mutex
\* held or not; and a worker or the flusher can always take its next step
\* unless it is waiting for the mutex, whatever the HTTP task is doing.
C15_HttpDecoupled == [] C15_Inv /\ [][C15_Step]_vars

C15_Witness ==
    /\ http = "handling"
    /\ mx = Flusher
    /\ fpc = "emit"
    /\ \E w \in Workers : wpc[w] = "lock"

\* the steps of the flusher's cycle
FlusherSteps ==
    { <<"wait", "lock">>, <<"lock", "check">>, <<"check", "sort">>,
      <<"check", "unlock">>, <<"sort", "emit">>, <<"emit", "reset">>,
      <<"reset", "unlock">>, <<"unlock", "wait">> }

C16_Inv ==
    /\ fpc \in {"wait", "lock", "check", "sort", "emit", "reset", "unlock"}
    /\ FlusherInside => mx = Flusher /\ ENABLED flushMessages
    /\ (fpc = "lock" /\ mx = Unlocked) => ENABLED flushMessages_Lock
    /\ (fpc = "wait" /\ ticks < MaxTicks) => ENABLED flushMessages_Tick

C16_Step ==
    /\ fpc' # fpc => << fpc, fpc' >> \in FlusherSteps
    /\ (fpc = "check" /\ fpc' # fpc /\ Len(globalMessages) = 0) =>
         /\ fpc' = "unlock"
         /\ UNCHANGED << globalMessages, capacity, stdout, flushed >>
    /\ fpc = "unlock" =>
         /\ UNCHANGED << globalMessages, capacity, stdout, flushed >>
         /\ fpc' # fpc => mx' = Unlocked

\* C16: the flusher's cycle has no way out: from every point of it the next
\* step can be taken (the lock apart, which it gets once it is free), every
\* step stays on the cycle, and every cycle that began with a tick comes
\* back to the wait with the mutex free; on a tick that finds the buffer
\* empty the cycle goes from the test straight to the unlock, and up to the
\* wait nothing is written and the buffer is what it was.
C16_NoTerminalState ==
    /\ [] C16_Inv
    /\ [][C16_Step]_vars
    /\ (fpc = "lock") ~> (fpc = "wait" /\ mx # Flusher)

C16_Witness ==
    /\ fpc = "wait"
    /\ ticks = 2
    /\ FlushedAt(1) = 0
    /\ FlushedAt(2) > 0

\* C17: under weak fairness of the flusher and of the workers, every Record
\* that is appended while a tick is still to come goes through the
\* flusher's loop, and its line is written if its text is not empty.
C17_EventuallyFlushed ==
    \A id \in 1 .. MaxMsgs :
      (id \in Ids(appended) /\ EpochOf(id) < MaxTicks)
        ~> /\ id \in Ids(flushed)
           /\ TextOf(id) # << >> => id \in Ids(stdout)

C17_Witness ==
    /\ Len(appended) = MaxMsgs
    /\ \A id \in Ids(appended) : id \in Ids(flushed)
    /\ \E id \in Ids(appended) : TextOf(id) # << >> /\ id \in Ids(stdout)
    /\ \E id \in Ids(appended) : EpochOf(id) = 1

C18_Inv ==
    /\ \A w \in Workers : mx = w <=> Inside(w)
    /\ mx = Flusher <=> FlusherInside
    /\ fpc = "wait" => mx # Flusher
    /\ \A w \in Workers : mx = w => ENABLED parseMessage(w)
    /\ mx = Flusher => ENABLED flushMessages
    /\ ~ /\ mx # Unlocked
         /\ fpc = "lock"
         /\ \A w \in Workers : wpc[w] = "lock"

C18_Step ==
    /\ \A w \in Workers :
         (wpc[w] = "parse" /\ wpc'[w] = "ack") => (mx' = mx /\ mx # w)
    /\ (fpc = "check" /\ fpc' # fpc) => fpc' \in {"sort", "unlock"}
    /\ (fpc = "reset" /\ fpc' # fpc) => fpc' = "unlock"
    /\ (fpc = "unlock" /\ fpc' # fpc) => mx' = Unlocked

\* C18: the mutex is held exactly by the actor between its Lock and its
\* Unlock, who can always take its next step; the decode-failure path of
\* parseMessage does not touch it; both branches of the flusher lead to the
\* Unlock; it is not held while the flusher waits for a tick; never do all
\* actors wait for it while it is held; and under weak fairness a held mutex
\* is released and a worker waiting to append gets it.
C18_DeadlockFree ==
    /\ [] C18_Inv
    /\ [][C18_Step]_vars
    /\ (mx # Unlocked) ~> (mx = Unlocked)
    /\ \A w \in Workers : (wpc[w] = "lock") ~> (wpc[w] = "append")

C18_Witness ==
    /\ mx = Flusher
    /\ fpc = "unlock"
    /\ FlushedAt(ticks) = 0
    /\ \E w \in Workers : wpc[w] = "lock"
    /\ \E k \in DOMAIN delivered : Unmarshal(delivered[k]).err /\ acks[k] = 1

\* C19: when the flusher has flushed a batch of n > 0 Records, the buffer
\* is a new empty slice of capacity exactly n that holds none of the
\* Records of the batch.
C19_ResetCapacity ==
    (fpc = "unlock" /\ FlushedAt(ticks) > 0) =>
      /\ Len(globalMessages) = 0
      /\ capacity = FlushedAt(ticks)
      /\ \A k \in DOMAIN flushed :
           flushed[k].tick = ticks => flushed[k].id \notin Ids(globalMessages)

\* a batch of three Records, held by a slice that had grown to capacity 4,
\* has been flushed and replaced
C19_Witness ==
    /\ fpc = "unlock"
    /\ FlushedAt(ticks) = 3
    /\ capacity = 3

====
